---------------------------- MODULE Spec2Model ----------------------------
(***************************************************************************)
(* Model of ensembl_lite: the homology clusterer (grouped_related), the    *)
(* merge engine (merge_grouped), the homology store (HomologyDb) and the   *)
(* relationship builder (make_gene_relationships).                         *)
(*                                                                         *)
(* Python objects that are mutated in place or compared by identity        *)
(* (homolog_group, the sets held by make_gene_relationships) live in a     *)
(* heap: a sequence whose index is the object's identity.                  *)
(***************************************************************************)
EXTENDS Integers, Sequences, FiniteSets, TLC

(***************************************************************************)
(* Bounds                                                                  *)
(***************************************************************************)
NumGenes == 4          \* gene ids fed to grouped_related
MaxTriples == 3        \* triples consumed by one grouped_related call
MaxTriplesOrtho == 5   \* the same, when all triples are of one type
MaxTriplesShort == 3   \* the same, in the shorter runs of one type
NumMergeGenes == 3     \* gene ids in the inputs of merge_grouped
NumDbGenes == 2        \* comma-free gene ids stored in a HomologyDb
MaxDbGroups == 2       \* groups handed to the add_records calls of one run
MaxDbGroupsLong == 4   \* the same, in the longer runs over comma-free ids
NumGeneIds == 1        \* stable ids of the gene records
NumMrna == 2           \* names of the mRNA records
NumCds == 2            \* names of the CDS records
NumLineIds == 1        \* stable ids in the IDs of the lines of a gff file
MaxCoord == 2          \* coordinates of the lines
MaxLines == 3          \* lines read by one custom_gff_parser call
NumStableIds == 2      \* stable ids of the features of an EnsemblGffDb
MaxFeatures == 3       \* rows of the feature table of the store
MaxObjects == 3        \* records constructed for the add_records calls
MaxFresh == 2          \* records constructed for one add_records call
MaxFiles == 3          \* files retrieved by one download_data call
MaxBuildCalls == 2     \* make_annotation_db calls for one destination

TypeSeq == <<"ortho", "para">>
RelTypes == {TypeSeq[i] : i \in 1..Len(TypeSeq)}

\* dict.get / "not in" of a gene id that has no group
NoGroup == 0

VARIABLES
    gr_pc,      \* grouped_related: "idle" | "loop" | "done"
    grouped,    \* grouped_related: {rel_type: {gene_id: homolog_group}}
    gr_heap,    \* the homolog_group objects grouped_related created
    reduced,    \* grouped_related: the returned {rel_type: groups}
    data,       \* the triples grouped_related has consumed, in order
    mg_pc,      \* the caller of merge_grouped: which merges it has made
    mg_heap,    \* the homolog_group objects of the inputs and the results
    in_a,       \* partial clustering A: {rel_type: tuple of homolog_group}
    in_b,       \* partial clustering B
    in_c,       \* partial clustering C
    in_sets,    \* the gene-id sets A, B and C held when they were built
    r_ab,       \* merge_grouped(A, B)
    r_ba,       \* merge_grouped(B, A)
    r_bc,       \* merge_grouped(B, C)
    r_ab_c,     \* merge_grouped(merge_grouped(A, B), C)
    r_a_bc,     \* merge_grouped(A, merge_grouped(B, C))
    db_pc,          \* HomologyDb: "idle" | "open" (constructed)
    relationship_tbl, \* table relationship: homology_type of the row with id i
    rel_types,      \* HomologyDb._relationship_types: {rel_type: id}
    homology_tbl,   \* table homology: relationship_id of the row with id i
    member_tbl,     \* table member: (gene_id, homology_id) rows
    db_last,        \* the last add_records call: its arguments and outcome
    db_prev,        \* the tables as they were before that call
    db_groups,      \* the number of groups handed to add_records so far
    gm_pc,          \* make_gene_relationships: "idle" | "start" | "reduce" |
                    \* "done" | "raised"
    gm_records,     \* its argument
    related,        \* related: the records by biotype and name
    genes,          \* genes: the set object of each key, NoSet without one
    gm_heap,        \* the set objects built by the call
    marked,         \* the CDS records whose attrs were made canonical
    gm_i,           \* CDS records consumed by the second loop
    gm_error,       \* the exception that ended the call
    nz_pc,          \* custom_gff_parser: "idle" | "loop" | "done"
    nz_lines,       \* the lines read so far
    nz_reduced,     \* reduced: the record held under each name
    num_fake_ids,   \* num_fake_ids
    gf_pc,          \* EnsemblGffDb: "idle" | "open" | "one" | "two" | "done"
    gf_store,       \* the store the caller fills
    gf_heap,        \* the EnsemblGffRecord objects the caller holds
    gf_last,        \* the last call on the store and whether it raised
    gf_prev,        \* the store as it was before the last call
    gf_f1,          \* the conditions of the first subset call
    gf_f2,          \* the conditions of the second subset call
    gf_s1,          \* gf_store.subset(f1)
    gf_s12,         \* gf_store.subset(f1).subset(f2)
    gf_both,        \* gf_store.subset(f1 and f2)
    dl_pc,          \* download_data: "idle" | "load" | "done"
    dl_paths,       \* the retrieved files, in the order of remote_paths
    dl_do_checksum, \* do_checksum
    dl_next,        \* the place of the path saved_paths yields next
    dl_loaded,      \* all_checksums holds the signatures of the directory
    dl_compared,    \* the files whose signature was computed and compared
    dl_result,      \* "none" | "True" | the error raised
    ma_pc,          \* make_annotation_db: "idle" | "ready"
    ma_dest,        \* what is at dest: "absent" | "empty" | "built"
    ma_calls        \* the calls made: the records of src and the outcome

grVars == <<gr_pc, grouped, gr_heap, reduced, data>>
mgVars == <<mg_pc, mg_heap, in_a, in_b, in_c, in_sets, r_ab, r_ba, r_bc,
            r_ab_c, r_a_bc>>
dbVars == <<db_pc, relationship_tbl, rel_types, homology_tbl, member_tbl, db_last,
            db_prev, db_groups>>
gmVars == <<gm_pc, gm_records, related, genes, gm_heap, marked, gm_i, gm_error>>
nzVars == <<nz_pc, nz_lines, nz_reduced, num_fake_ids>>
gfVars == <<gf_pc, gf_store, gf_heap, gf_last, gf_prev, gf_f1, gf_f2, gf_s1, gf_s12,
            gf_both>>
dlVars == <<dl_pc, dl_paths, dl_do_checksum, dl_next, dl_loaded, dl_compared,
            dl_result>>
maVars == <<ma_pc, ma_dest, ma_calls>>
vars == <<gr_pc, grouped, gr_heap, reduced, data,
          mg_pc, mg_heap, in_a, in_b, in_c, in_sets, r_ab, r_ba, r_bc,
          r_ab_c, r_a_bc,
          db_pc, relationship_tbl, rel_types, homology_tbl, member_tbl, db_last,
          db_prev, db_groups,
          gm_pc, gm_records, related, genes, gm_heap, marked, gm_i, gm_error,
          nz_pc, nz_lines, nz_reduced, num_fake_ids,
          gf_pc, gf_store, gf_heap, gf_last, gf_prev, gf_f1, gf_f2, gf_s1, gf_s12,
          gf_both,
          dl_pc, dl_paths, dl_do_checksum, dl_next, dl_loaded, dl_compared,
          dl_result,
          ma_pc, ma_dest, ma_calls>>

(***************************************************************************)
(* homolog_group                                                           *)
(***************************************************************************)
GrGenes == 1..NumGenes

\* homolog_group(relationship=rel_type): __post_init__ gives it a new set
NewGroup(rel_type) == [relationship |-> rel_type, gene_ids |-> {}]

\* val.gene_ids |= pair: the set object of group `val` is updated in place
IOr(heap, val, pair) ==
    [heap EXCEPT ![val].gene_ids = @ \cup pair]

(***************************************************************************)
(* grouped_related                                                         *)
(***************************************************************************)
GroupedIdle ==
    /\ gr_pc = "idle"
    /\ grouped = [t \in RelTypes |-> [g \in GrGenes |-> NoGroup]]
    /\ gr_heap = <<>>
    /\ reduced = [t \in RelTypes |-> {}]
    /\ data = <<>>

GroupedInit ==
    /\ gr_pc = "loop"
    /\ grouped = [t \in RelTypes |-> [g \in GrGenes |-> NoGroup]]
    /\ gr_heap = <<>>
    /\ reduced = [t \in RelTypes |-> {}]
    /\ data = <<>>

\* the group of gene_id_2 is preferred to that of gene_id_1
TargetGroupOfSecond(relationship, gene_id_1, gene_id_2, fresh) ==
    IF relationship[gene_id_2] # NoGroup THEN relationship[gene_id_2]
    ELSE IF relationship[gene_id_1] # NoGroup THEN relationship[gene_id_1]
    ELSE fresh

\* the group of gene_id_2 is never looked up
TargetGroupOfFirst(relationship, gene_id_1, gene_id_2, fresh) ==
    IF relationship[gene_id_1] # NoGroup THEN relationship[gene_id_1] ELSE fresh

\* lines 125-130: the group the pair is added to; `fresh` is the identity a
\* newly constructed homolog_group gets
TargetGroup(relationship, gene_id_1, gene_id_2, fresh) ==
    IF relationship[gene_id_1] # NoGroup THEN relationship[gene_id_1]
    ELSE IF relationship[gene_id_2] # NoGroup THEN relationship[gene_id_2]
    ELSE fresh

\* one iteration of the loop over data, lines 121-134
Consume(rel_type, gene_id_1, gene_id_2) ==
    /\ gr_pc = "loop"
    /\ LET relationship == grouped[rel_type]
           pair == {gene_id_1, gene_id_2}
           fresh == Len(gr_heap) + 1
           val == TargetGroup(relationship, gene_id_1, gene_id_2, fresh)
           heap1 == IF val = fresh
                    THEN Append(gr_heap, NewGroup(rel_type))
                    ELSE gr_heap
       IN /\ gr_heap' = IOr(heap1, val, pair)
          /\ grouped' = [grouped EXCEPT ![rel_type] =
                            [@ EXCEPT ![gene_id_1] = val, ![gene_id_2] = val]]
    /\ data' = Append(data, <<rel_type, gene_id_1, gene_id_2>>)
    /\ UNCHANGED <<gr_pc, reduced>>
    /\ UNCHANGED <<mgVars, dbVars, gmVars, nzVars, gfVars, dlVars, maVars>>

\* tuple(set(groups.values())): homolog_group hashes by the identity of its
\* gene_ids set, so distinct objects stay distinct whatever they hold; the
\* order of the tuple is that of a set and is not modelled
Reduce(groups) == {groups[g] : g \in DOMAIN groups} \ {NoGroup}

\* the data is exhausted: lines 136-140
GroupedReturn ==
    /\ gr_pc = "loop"
    /\ reduced' = [t \in RelTypes |-> Reduce(grouped[t])]
    /\ gr_pc' = "done"
    /\ UNCHANGED <<grouped, gr_heap, data>>
    /\ UNCHANGED <<mgVars, dbVars, gmVars, nzVars, gfVars, dlVars, maVars>>

(***************************************************************************)
(* merge_grouped                                                           *)
(*                                                                         *)
(* A clustering T = dict[str, tuple[homolog_group, ...]] is a record:      *)
(* keys, the relationship types it holds, and groups, the group objects of *)
(* each type ({} for a type not in keys).  The tuples are built from sets  *)
(* (tuple(set(...))), so their order is unspecified: a tuple is held as    *)
(* the set of its objects and its order is chosen where it is iterated.    *)
(***************************************************************************)
MgGenes == 1..NumMergeGenes

EmptyT == [keys |-> {}, groups |-> [t \in RelTypes |-> {}]]

\* all orders in which the elements of S can be iterated
RECURSIVE Perms(_)
Perms(S) ==
    IF S = {} THEN {<<>>}
    ELSE UNION {{<<x>> \o p : p \in Perms(S \ {x})} : x \in S}

\* keys of a {gene_id: homolog_group} dict
Keys(d) == {g \in DOMAIN d : d[g] # NoGroup}

\* __or__ as an in-place union that returns self
InPlaceOr(heap, self, other) ==
    [heap |-> [heap EXCEPT ![self].gene_ids = @ \cup heap[other].gene_ids],
     id |-> self]

\* homolog_group.__or__ (the groups of one type of a clustering have that
\* relationship, so it does not raise): a new object that holds the union;
\* gives the heap and the new object's identity
Or(heap, self, other) ==
    [heap |-> Append(heap, [relationship |-> heap[self].relationship,
                            gene_ids |-> heap[self].gene_ids
                                            \cup heap[other].gene_ids]),
     id |-> Len(heap) + 1]

\* _gene_id_to_group: result.update for each group of the series in turn, so
\* the last group that holds a gene id is the one it maps to
RECURSIVE GeneIdToGroup(_, _, _)
GeneIdToGroup(heap, series, result) ==
    IF series = <<>> THEN result
    ELSE GeneIdToGroup(heap, Tail(series),
            [g \in MgGenes |-> IF g \in heap[Head(series)].gene_ids
                               THEN Head(series) ELSE result[g]])

EmptyDict == [g \in MgGenes |-> NoGroup]

\* no group is added for the gene ids that only a holds
AddNone(a, b, combined) == combined

\* _add_unique
AddUnique(a, b, combined) ==
    [g \in MgGenes |-> IF g \in Keys(a) \ Keys(b) THEN a[g] ELSE combined[g]]

\* lines 186-191: the loop over shared_ids, visited in the order `visit`
RECURSIVE MergeShared(_, _, _, _, _, _)
MergeShared(visit, heap, grp1, grp2, rel_type_group, skip) ==
    IF visit = <<>>
    THEN [heap |-> heap, rel_type_group |-> rel_type_group]
    ELSE LET gene_id == Head(visit)
         IN IF gene_id \in skip
            THEN MergeShared(Tail(visit), heap, grp1, grp2, rel_type_group, skip)
            ELSE LET merged == Or(heap, grp1[gene_id], grp2[gene_id])
                     members == merged.heap[merged.id].gene_ids
                 IN MergeShared(Tail(visit), merged.heap, grp1, grp2,
                        [g \in MgGenes |-> IF g \in members THEN merged.id
                                           ELSE rel_type_group[g]],
                        skip \cup members)

\* lines 178-193 for one relationship type that both inputs hold, given the
\* expanded dicts: the set of outcomes (the heap and the distinct group
\* objects of rel_type_group), one for each order in which the set
\* shared_ids can be iterated
MergeDicts(heap, grp1, grp2) ==
    LET rel_type_group ==
            AddUnique(grp2, grp1, AddUnique(grp1, grp2, EmptyDict))
        shared_ids == Keys(grp1) \cap Keys(grp2)
    IN {LET done == MergeShared(visit, heap, grp1, grp2, rel_type_group, {})
        IN [heap |-> done.heap, ids |-> Reduce(done.rel_type_group)]
            : visit \in Perms(shared_ids)}

\* the orders in which the tuple of the group objects S can be iterated that
\* differ in the dict _gene_id_to_group builds (one, when no two groups
\* share a gene id)
SeriesOf(heap, S) ==
    IF \A x \in S, y \in S : x # y => heap[x].gene_ids \cap heap[y].gene_ids = {}
    THEN {CHOOSE p \in Perms(S) : TRUE}
    ELSE Perms(S)

\* lines 172-193 for one relationship type that both inputs hold
MergeType(heap, groups1, groups2) ==
    UNION {MergeDicts(heap, GeneIdToGroup(heap, s1, EmptyDict),
                            GeneIdToGroup(heap, s2, EmptyDict))
              : s1 \in SeriesOf(heap, groups1), s2 \in SeriesOf(heap, groups2)}

\* the loop over rel_types from the i-th type on: the set of outcomes
RECURSIVE MergeFrom(_, _, _, _)
MergeFrom(i, heap, group1, group2) ==
    IF i > Len(TypeSeq)
    THEN {[heap |-> heap, groups |-> [t \in RelTypes |-> {}]]}
    ELSE LET rel_type == TypeSeq[i]
         IN IF rel_type \notin group1.keys \cup group2.keys
            THEN MergeFrom(i + 1, heap, group1, group2)
            ELSE IF rel_type \notin group1.keys \cap group2.keys
            THEN {[rest EXCEPT !.groups[rel_type] =
                        IF rel_type \in group1.keys
                        THEN group1.groups[rel_type]
                        ELSE group2.groups[rel_type]]
                    : rest \in MergeFrom(i + 1, heap, group1, group2)}
            ELSE UNION {
                    {[rest EXCEPT !.groups[rel_type] = one.ids]
                        : rest \in MergeFrom(i + 1, one.heap, group1, group2)}
                    : one \in MergeType(heap, group1.groups[rel_type],
                                        group2.groups[rel_type])}

\* merge_grouped(group1, group2): every outcome it can have; an outcome is
\* the heap after the call and the returned clustering
MergeGrouped(heap, group1, group2) ==
    {[heap |-> m.heap,
      joint |-> [keys |-> group1.keys \cup group2.keys, groups |-> m.groups]]
        : m \in MergeFrom(1, heap, group1, group2)}

(***************************************************************************)
(* The inputs of merge_grouped: clusterings whose groups are non-empty and *)
(* pairwise disjoint per type                                              *)
(***************************************************************************)
\* the sets of pairwise disjoint non-empty subsets of G
PartialPartitions(G) ==
    LET n == Cardinality(G)
        Blocks(f) == {{g \in G : f[g] = k} : k \in 1..n} \ {{}}
    IN {Blocks(f) : f \in [G -> 0..n]}

\* a clustering as the gene-id sets of its groups, in the order in which the
\* groups are constructed
Contents(ortho, para) ==
    LET P == [t \in RelTypes |-> IF t = "ortho" THEN ortho ELSE para]
    IN [keys |-> {t \in RelTypes : P[t] # {}},
        sets |-> [t \in RelTypes |-> CHOOSE p \in Perms(P[t]) : TRUE]]

ParaChoices == {{}, {{1}}}

Clusterings(G) ==
    {Contents(o, p) : o \in PartialPartitions(G), p \in ParaChoices}

\* the homolog_group objects of contents c are constructed, type by type
RECURSIVE AllocFrom(_, _, _)
AllocFrom(i, heap, c) ==
    IF i > Len(TypeSeq)
    THEN [heap |-> heap, groups |-> [t \in RelTypes |-> {}]]
    ELSE LET t == TypeSeq[i]
             n == Len(c.sets[t])
             new == [k \in 1..n |->
                        [relationship |-> t, gene_ids |-> c.sets[t][k]]]
             rest == AllocFrom(i + 1, heap \o new, c)
         IN [rest EXCEPT !.groups[t] = {Len(heap) + k : k \in 1..n}]

Alloc(heap, c) ==
    LET a == AllocFrom(1, heap, c)
    IN [heap |-> a.heap, T |-> [keys |-> c.keys, groups |-> a.groups]]

\* what clustering T holds now: its relationship types and the member set
\* of each of its group objects
SetsOf(heap, T) ==
    [keys |-> T.keys,
     sets |-> [t \in RelTypes |-> [o \in T.groups[t] |-> heap[o].gene_ids]]]

\* the set of gene-id sets clustering T holds for rel_type
GroupSets(heap, T, rel_type) == {heap[o].gene_ids : o \in T.groups[rel_type]}

MergeIdle ==
    /\ mg_pc = "idle"
    /\ mg_heap = <<>>
    /\ in_a = EmptyT /\ in_b = EmptyT /\ in_c = EmptyT
    /\ in_sets = <<>>
    /\ r_ab = EmptyT /\ r_ba = EmptyT /\ r_bc = EmptyT
    /\ r_ab_c = EmptyT /\ r_a_bc = EmptyT

\* two partial clusterings have been built
MergeInit ==
    \E ca \in Clusterings(MgGenes), cb \in Clusterings(MgGenes) :
        LET a == Alloc(<<>>, ca)
            b == Alloc(a.heap, cb)
        IN /\ mg_pc = "start"
           /\ mg_heap = b.heap
           /\ in_a = a.T /\ in_b = b.T /\ in_c = EmptyT
           /\ in_sets = <<SetsOf(b.heap, a.T), SetsOf(b.heap, b.T)>>
           /\ r_ab = EmptyT /\ r_ba = EmptyT /\ r_bc = EmptyT
           /\ r_ab_c = EmptyT /\ r_a_bc = EmptyT

\* three partial clusterings have been built
AssocInit ==
    \E ca \in Clusterings(MgGenes), cb \in Clusterings(MgGenes),
       cc \in Clusterings(MgGenes) :
        LET a == Alloc(<<>>, ca)
            b == Alloc(a.heap, cb)
            c == Alloc(b.heap, cc)
        IN /\ mg_pc = "start3"
           /\ mg_heap = c.heap
           /\ in_a = a.T /\ in_b = b.T /\ in_c = c.T
           /\ in_sets = <<SetsOf(c.heap, a.T), SetsOf(c.heap, b.T),
                           SetsOf(c.heap, c.T)>>
           /\ r_ab = EmptyT /\ r_ba = EmptyT /\ r_bc = EmptyT
           /\ r_ab_c = EmptyT /\ r_a_bc = EmptyT

\* r_ab = merge_grouped(A, B)
MergeAB ==
    /\ mg_pc = "start"
    /\ \E out \in MergeGrouped(mg_heap, in_a, in_b) :
          /\ mg_heap' = out.heap
          /\ r_ab' = out.joint
    /\ mg_pc' = "ab"
    /\ UNCHANGED <<in_a, in_b, in_c, in_sets, r_ba, r_bc, r_ab_c, r_a_bc>>
    /\ UNCHANGED <<grVars, dbVars, gmVars, nzVars, gfVars, dlVars, maVars>>

\* r_ba = merge_grouped(B, A)
MergeBA ==
    /\ mg_pc = "ab"
    /\ \E out \in MergeGrouped(mg_heap, in_b, in_a) :
          /\ mg_heap' = out.heap
          /\ r_ba' = out.joint
    /\ mg_pc' = "done"
    /\ UNCHANGED <<in_a, in_b, in_c, in_sets, r_ab, r_bc, r_ab_c, r_a_bc>>
    /\ UNCHANGED <<grVars, dbVars, gmVars, nzVars, gfVars, dlVars, maVars>>

\* the reduction ((A, B), C): r_ab = merge_grouped(A, B)
ReduceAB ==
    /\ mg_pc = "start3"
    /\ \E out \in MergeGrouped(mg_heap, in_a, in_b) :
          /\ mg_heap' = out.heap
          /\ r_ab' = out.joint
    /\ mg_pc' = "ab3"
    /\ UNCHANGED <<in_a, in_b, in_c, in_sets, r_ba, r_bc, r_ab_c, r_a_bc>>
    /\ UNCHANGED <<grVars, dbVars, gmVars, nzVars, gfVars, dlVars, maVars>>

\* r_ab_c = merge_grouped(r_ab, C)
ReduceAB_C ==
    /\ mg_pc = "ab3"
    /\ \E out \in MergeGrouped(mg_heap, r_ab, in_c) :
          /\ mg_heap' = out.heap
          /\ r_ab_c' = out.joint
    /\ mg_pc' = "ab_c"
    /\ UNCHANGED <<in_a, in_b, in_c, in_sets, r_ab, r_ba, r_bc, r_a_bc>>
    /\ UNCHANGED <<grVars, dbVars, gmVars, nzVars, gfVars, dlVars, maVars>>

\* the reduction (A, (B, C)): r_bc = merge_grouped(B, C)
ReduceBC ==
    /\ mg_pc = "ab_c"
    /\ \E out \in MergeGrouped(mg_heap, in_b, in_c) :
          /\ mg_heap' = out.heap
          /\ r_bc' = out.joint
    /\ mg_pc' = "bc"
    /\ UNCHANGED <<in_a, in_b, in_c, in_sets, r_ab, r_ba, r_ab_c, r_a_bc>>
    /\ UNCHANGED <<grVars, dbVars, gmVars, nzVars, gfVars, dlVars, maVars>>

\* r_a_bc = merge_grouped(A, r_bc)
ReduceA_BC ==
    /\ mg_pc = "bc"
    /\ \E out \in MergeGrouped(mg_heap, in_a, r_bc) :
          /\ mg_heap' = out.heap
          /\ r_a_bc' = out.joint
    /\ mg_pc' = "done3"
    /\ UNCHANGED <<in_a, in_b, in_c, in_sets, r_ab, r_ba, r_bc, r_ab_c>>
    /\ UNCHANGED <<grVars, dbVars, gmVars, nzVars, gfVars, dlVars, maVars>>

(***************************************************************************)
(* HomologyDb                                                              *)
(*                                                                         *)
(* The tables are those the connection of the HomologyDb sees.  A gene id  *)
(* is a string, held as the sequence of its parts between commas: <<1>> is *)
(* a gene id without a comma, <<1, 2>> the gene id "1,2".                  *)
(***************************************************************************)
PlainIds == {<<p>> : p \in 1..NumDbGenes}
DbGeneIds == PlainIds \cup {<<1, 2>>}

\* view related_groups: homology JOIN relationship JOIN member
RelatedGroups(rel, hom, mem) ==
    {[homology_type |-> rel[hom[m[2]]], relationship_id |-> hom[m[2]],
      homology_id |-> m[2], gene_id |-> m[1]] : m \in mem}

\* GROUP_CONCAT(gene_id) of the rows, then .split(","): the parts between
\* the commas of the concatenation, as a set
SplitConcat(rows) ==
    UNION {{<<r.gene_id[i]>> : i \in 1..Len(r.gene_id)} : r \in rows}

\* _make_relationship_type_id: the tables and the cache after it, and the id
MakeRelationshipTypeId(rel, cache, rel_type) ==
    IF cache[rel_type] = 0
    THEN [relationship |-> Append(rel, rel_type),
          rel_types |-> [cache EXCEPT ![rel_type] = Len(rel) + 1],
          id |-> Len(rel) + 1]
    ELSE [relationship |-> rel, rel_types |-> cache, id |-> cache[rel_type]]

\* _get_homology_group_id with gene_ids: the outcomes it can have, each the
\* homology table after it and the id; with LIMIT 1 and no ORDER BY any
\* matching row of the view can be the one fetched
GetHomologyGroupId(rel, hom, mem, relationship_id, gene_ids) ==
    LET rows == {r \in RelatedGroups(rel, hom, mem) :
                    r.relationship_id = relationship_id /\ r.gene_id \in gene_ids}
    IN IF rows = {}
       THEN {[homology |-> Append(hom, relationship_id), id |-> Len(hom) + 1]}
       ELSE {[homology |-> hom, id |-> r.homology_id] : r \in rows}

\* lines 295-303: the loop over records; the outcomes it can have
RECURSIVE AddLoop(_, _, _, _, _, _)
AddLoop(records, relationship_type, rel_type_id, rel, hom, mem) ==
    IF records = <<>>
    THEN {[homology |-> hom, member |-> mem, raised |-> FALSE]}
    ELSE LET group == Head(records)
         IN IF group.relationship # relationship_type
            THEN {[homology |-> hom, member |-> mem, raised |-> TRUE]}
            ELSE UNION {
                    AddLoop(Tail(records), relationship_type, rel_type_id, rel,
                            got.homology,
                            mem \cup {<<gene_id, got.id>>
                                        : gene_id \in group.gene_ids})
                    : got \in GetHomologyGroupId(rel, hom, mem, rel_type_id,
                                                 group.gene_ids)}

\* get_related_to whose first query does not filter by homology_type
GetRelatedToAnyType(rel, hom, mem, gene_id, relationship_type) ==
    LET view == RelatedGroups(rel, hom, mem)
        rows == {r \in view : r.gene_id = gene_id}
    IN IF rows = {} THEN {{}}
       ELSE {SplitConcat({q \in view : q.homology_id = r.homology_id})
                : r \in rows}

\* get_related_to: the results it can have (fetchone takes any matching
\* row), each the set of the strings of the returned list
GetRelatedTo(rel, hom, mem, gene_id, relationship_type) ==
    LET view == RelatedGroups(rel, hom, mem)
        rows == {r \in view : r.homology_type = relationship_type
                                /\ r.gene_id = gene_id}
    IN IF rows = {} THEN {{}}
       ELSE {SplitConcat({q \in view : q.homology_id = r.homology_id})
                : r \in rows}

\* get_related_groups: the gene_ids of the returned homolog_group instances
GetRelatedGroups(rel, hom, mem, relationship_type) ==
    LET view == {r \in RelatedGroups(rel, hom, mem) :
                    r.homology_type = relationship_type}
    IN {SplitConcat({q \in view : q.homology_id = r.homology_id}) : r \in view}

NoCall == [records |-> <<>>, relationship_type |-> "", raised |-> FALSE,
           repeat |-> FALSE]

NoTables == [relationship |-> <<>>, homology |-> <<>>, member |-> {}]

DbIdle ==
    /\ db_pc = "idle"
    /\ relationship_tbl = <<>>
    /\ rel_types = [t \in RelTypes |-> 0]
    /\ homology_tbl = <<>>
    /\ member_tbl = {}
    /\ db_last = NoCall
    /\ db_prev = NoTables
    /\ db_groups = 0

\* HomologyDb(): empty tables, empty cache
DbInit ==
    /\ db_pc = "open"
    /\ relationship_tbl = <<>>
    /\ rel_types = [t \in RelTypes |-> 0]
    /\ homology_tbl = <<>>
    /\ member_tbl = {}
    /\ db_last = NoCall
    /\ db_prev = NoTables
    /\ db_groups = 0

\* non-empty homolog_group instances over the gene ids
GroupsOver(ids) ==
    {[relationship |-> t, gene_ids |-> G] :
        t \in RelTypes, G \in (SUBSET ids) \ {{}}}

\* sequences of 1..n groups
RecordsOver(ids, n) ==
    UNION {[1..k -> GroupsOver(ids)] : k \in 1..n}

\* HomologyDb.add_records(records=records, relationship_type=relationship_type)
AddRecords(records, relationship_type) ==
    /\ db_pc = "open"
    /\ LET made == MakeRelationshipTypeId(relationship_tbl, rel_types,
                                          relationship_type)
       IN /\ relationship_tbl' = made.relationship
          /\ rel_types' = made.rel_types
          /\ \E out \in AddLoop(records, relationship_type, made.id,
                                made.relationship, homology_tbl, member_tbl) :
                /\ homology_tbl' = out.homology
                /\ member_tbl' = out.member
                /\ db_last' = [records |-> records,
                               relationship_type |-> relationship_type,
                               raised |-> out.raised,
                               repeat |-> /\ ~db_last.raised
                                          /\ db_last.records = records
                                          /\ db_last.relationship_type
                                                = relationship_type]
    /\ db_prev' = [relationship |-> relationship_tbl,
                   homology |-> homology_tbl, member |-> member_tbl]
    /\ db_groups' = db_groups + Len(records)
    /\ UNCHANGED <<db_pc, grVars, mgVars, gmVars, nzVars, gfVars, dlVars, maVars>>

(***************************************************************************)
(* make_gene_relationships                                                 *)
(*                                                                         *)
(* The name of a gene record is its stable id with or without the prefix   *)
(* "gene:".  Only the stable id of gene records is taken, so the names of  *)
(* mRNA and CDS records are opaque: a number each, the two biotypes apart. *)
(* EnsemblGffRecord hashes and compares by name, so a record in a dict key *)
(* or a set is its biotype and name.                                       *)
(***************************************************************************)
GeneNames == [typed : BOOLEAN, id : 1..NumGeneIds]
MrnaNames == 1..NumMrna
CdsNames == 1..NumCds

\* no record of that name, no set object under that key
NoRecord == [typed |-> FALSE, id |-> 0]
NoSet == 0

\* EnsemblGffRecord.stableid: the name without its type prefix
Stableid(name) == [typed |-> FALSE, id |-> name.id]

\* the sequences of distinct CDS records: a name and a parent_id each
RECURSIVE CdsSeqs(_)
CdsSeqs(names) ==
    {<<>>} \cup
    UNION {{<<[name |-> c, parent_id |-> m]>> \o rest
              : m \in MrnaNames, rest \in CdsSeqs(names \ {c})}
           : c \in names}

\* the mRNA record named 1 can be the canonical transcript
CanonicalChoices == {{}, {1}}

\* the records handed to make_gene_relationships: the gene records, the
\* parent_id of each mRNA record (NoRecord: no such record), the canonical
\* mRNA records, the CDS records in the order of the file
RecordSets ==
    [gene : SUBSET GeneNames,
     mrna : [MrnaNames -> GeneNames \cup {NoRecord}],
     canonical : CanonicalChoices,
     cds : CdsSeqs(CdsNames)]

NoRecords == [gene |-> {}, mrna |-> [m \in MrnaNames |-> NoRecord],
              canonical |-> {}, cds |-> <<>>]

GeneRelIdle ==
    /\ gm_pc = "idle"
    /\ gm_records = NoRecords
    /\ related = NoRecords
    /\ genes = [g \in GeneNames |-> NoSet]
    /\ gm_heap = <<>>
    /\ marked = {}
    /\ gm_i = 0
    /\ gm_error = <<>>

GeneRelInit ==
    /\ gm_pc = "start"
    /\ gm_records \in RecordSets
    /\ related = NoRecords
    /\ genes = [g \in GeneNames |-> NoSet]
    /\ gm_heap = <<>>
    /\ marked = {}
    /\ gm_i = 0
    /\ gm_error = <<>>

\* lines 477-481, and related["cds"] of line 485
BuildRelated ==
    /\ gm_pc = "start"
    /\ related' = gm_records
    /\ IF gm_records.cds = <<>>
       THEN gm_pc' = "raised" /\ gm_error' = <<"KeyError", "cds">>
       ELSE gm_pc' = "reduce" /\ UNCHANGED gm_error
    /\ UNCHANGED <<gm_records, genes, gm_heap, marked, gm_i>>
    /\ UNCHANGED <<grVars, mgVars, dbVars, nzVars, gfVars, dlVars, maVars>>

\* genes.get(gene.stableid, set()): the key that equals the stable id is a
\* record whose name is the stable id; `fresh` is the identity of a new set
GenesGet(d, stableid, fresh) ==
    IF d[stableid] # NoSet THEN d[stableid] ELSE fresh

\* the call ends with KeyError(key)
Raise(key) ==
    /\ gm_pc' = "raised"
    /\ gm_error' = <<"KeyError", key>>
    /\ UNCHANGED <<genes, gm_heap, gm_i>>

\* one iteration of the loop over related["cds"].values(), lines 485-495
ReduceCds ==
    /\ gm_pc = "reduce"
    /\ gm_i < Len(related.cds)
    /\ LET cds_record == related.cds[gm_i + 1]
           mrna_parent == related.mrna[cds_record.parent_id]
       IN IF \A m \in MrnaNames : related.mrna[m] = NoRecord
          THEN Raise("mrna") /\ UNCHANGED marked
          ELSE IF mrna_parent = NoRecord
          THEN Raise("mrna_record") /\ UNCHANGED marked
          ELSE
            /\ marked' = IF cds_record.parent_id \in related.canonical
                         THEN marked \cup {cds_record.name} ELSE marked
            /\ IF related.gene = {}
               THEN Raise("gene")
               ELSE IF mrna_parent \notin related.gene
               THEN Raise("gene_record")
               ELSE
                 LET gene == mrna_parent
                     fresh == Len(gm_heap) + 1
                     gene_relationships == GenesGet(genes, Stableid(gene), fresh)
                     heap1 == IF gene_relationships = fresh
                              THEN Append(gm_heap, {}) ELSE gm_heap
                 IN /\ gm_heap' = [heap1 EXCEPT ![gene_relationships] =
                            @ \cup {[biotype |-> "cds", name |-> cds_record.name],
                                    [biotype |-> "mrna",
                                     name |-> cds_record.parent_id]}]
                    /\ genes' = [genes EXCEPT ![gene] = gene_relationships]
                    /\ gm_i' = gm_i + 1
                    /\ UNCHANGED <<gm_pc, gm_error>>
    /\ UNCHANGED <<gm_records, related>>
    /\ UNCHANGED <<grVars, mgVars, dbVars, nzVars, gfVars, dlVars, maVars>>

\* the loop is over: return genes
GeneRelReturn ==
    /\ gm_pc = "reduce"
    /\ gm_i = Len(related.cds)
    /\ gm_pc' = "done"
    /\ UNCHANGED <<gm_records, related, genes, gm_heap, marked, gm_i, gm_error>>
    /\ UNCHANGED <<grVars, mgVars, dbVars, nzVars, gfVars, dlVars, maVars>>

(***************************************************************************)
(* custom_gff_parser                                                       *)
(*                                                                         *)
(* A line is a record as gff_parser yields it: the ID of its attributes    *)
(* (a stable id whose type prefix is in lower or in upper case, or NoId    *)
(* for attributes without an ID), its start and its stop.  A name is       *)
(* [kind, id]: kind "id" for the ID with its prefix in lower case, kind    *)
(* "unknown" for the name f"unknown-{num_fake_ids}".                        *)
(***************************************************************************)
NoId == [upper |-> FALSE, id |-> 0]
LineIds == [upper : BOOLEAN, id : 1..NumLineIds] \cup {NoId}
Lines == {l \in [id : LineIds, start : 1..MaxCoord, stop : 1..MaxCoord] :
            l.start <= l.stop}

\* EnsemblGffRecord.update_from_attrs: the name taken from the ID, whose
\* type prefix tidy_gff3_stableids has made lower case
UpdateFromAttrs(line) == [kind |-> "id", id |-> line.id.id]

Min(a, b) == IF a <= b THEN a ELSE b
Max(a, b) == IF a >= b THEN a ELSE b

\* the span of the record replaces the spans held
ReplaceSpan(spans, record) == <<<<record.start, record.stop>>>>

\* the span of the record is appended unless the spans hold it already
AppendNewSpan(spans, record) ==
    IF \E i \in 1..Len(spans) : spans[i] = <<record.start, record.stop>>
    THEN spans ELSE Append(spans, <<record.start, record.stop>>)

\* line 134: the span of the record is appended to the spans of the record
\* the table holds under its name
AppendSpan(spans, record) == Append(spans, <<record.start, record.stop>>)

\* start and stop of the held record become those of the record
OverwriteBounds(held, record) ==
    [held EXCEPT !.start = record.start, !.stop = record.stop]

\* lines 135-136: start and stop of the held record are widened
Widen(held, record) ==
    [held EXCEPT !.start = Min(held.start, record.start),
                 !.stop = Max(held.stop, record.stop)]

\* one iteration of the loop over the records, lines 125-136: the table
\* (the names it holds and the record of each) and the counter after it
FeedRecord(tbl, fake_ids, line) ==
    LET name == IF line.id = NoId
                THEN [kind |-> "unknown", id |-> fake_ids]
                ELSE UpdateFromAttrs(line)
        counter == IF line.id = NoId THEN fake_ids + 1 ELSE fake_ids
        record == [name |-> name, start |-> line.start, stop |-> line.stop,
                   spans |-> <<>>]
        held == IF name \in DOMAIN tbl THEN tbl[name] ELSE record
        merged == Widen([held EXCEPT !.spans = AppendSpan(held.spans, record)],
                        record)
    IN [reduced |-> [n \in DOMAIN tbl \cup {name} |->
                        IF n = name THEN merged ELSE tbl[n]],
        num_fake_ids |-> counter]

NormalizerIdle ==
    /\ nz_pc = "idle"
    /\ nz_lines = <<>>
    /\ nz_reduced = <<>>
    /\ num_fake_ids = 0

\* custom_gff_parser(path, 0): reduced = {}
NormalizerInit ==
    /\ nz_pc = "loop"
    /\ nz_lines = <<>>
    /\ nz_reduced = <<>>
    /\ num_fake_ids = 0

\* the parser yields the record of the next line
Feed(line) ==
    /\ nz_pc = "loop"
    /\ LET fed == FeedRecord(nz_reduced, num_fake_ids, line)
       IN /\ nz_reduced' = fed.reduced
          /\ num_fake_ids' = fed.num_fake_ids
    /\ nz_lines' = Append(nz_lines, line)
    /\ UNCHANGED nz_pc
    /\ UNCHANGED <<grVars, mgVars, dbVars, gmVars, gfVars, dlVars, maVars>>

\* the file is exhausted: return reduced, num_fake_ids
NormalizerReturn ==
    /\ nz_pc = "loop"
    /\ nz_pc' = "done"
    /\ UNCHANGED <<nz_lines, nz_reduced, num_fake_ids>>
    /\ UNCHANGED <<grVars, mgVars, dbVars, gmVars, gfVars, dlVars, maVars>>

(***************************************************************************)
(* EnsemblGffDb (_genomedb.py, lines 144-470).  A store is the content of  *)
(* its three tables, rows in the order of their AUTOINCREMENT ids, and the *)
(* cache functools.cache keeps for _get_biotype_id.  Of the columns of a   *)
(* feature the model keeps stableid, biotype_id and strand; seqid, start,  *)
(* stop and spans are copied by subset in the same way as strand.          *)
(***************************************************************************)
NoFeatureId == 0    \* feature_id is None

StableIds == 1..NumStableIds
FeatureNames == [typed : BOOLEAN, id : StableIds]
PlainNames == {n \in FeatureNames : ~n.typed}

\* a biotype string is a word in lower case or in upper case
BiotypeWords == {"gene", "cds"}
Biotypes == [word : BiotypeWords, upper : BOOLEAN]
Strands == {"+", "-"}

\* COLLATE NOCASE: two strings are compared by their lower case forms
Lower(biotype) == [biotype EXCEPT !.upper = FALSE]

\* EnsemblGffRecord objects that were not added to a store
GffRecords(names, biotypes, strands) ==
    [name : names, biotype : biotypes, strand : strands,
     feature_id : {NoFeatureId}]

\* a store after __init__: the tables are empty, nothing is cached
EmptyStore ==
    [biotype |-> <<>>, cache |-> <<>>, feature |-> <<>>,
     related_feature |-> <<>>]

\* lines 257-261: functools.cache answers for a string it has seen; for any
\* other string INSERT OR IGNORE adds a row, no constraint of the table
\* makes it ignore one
GetBiotypeId(store, biotype) ==
    IF biotype \in DOMAIN store.cache
    THEN [store |-> store, id |-> store.cache[biotype]]
    ELSE LET id == Len(store.biotype) + 1
         IN  [store |-> [store EXCEPT
                            !.biotype = Append(@, biotype),
                            !.cache = [b \in DOMAIN @ \cup {biotype} |->
                                          IF b = biotype THEN id ELSE @[b]]],
              id |-> id]

\* lines 269-288: add_feature inserts one row and returns its id
AddFeatureRow(store, record) ==
    LET interned == GetBiotypeId(store, record.biotype)
        row == [stableid |-> Stableid(record.name),
                biotype_id |-> interned.id,
                strand |-> record.strand]
    IN  [store |-> [interned.store EXCEPT !.feature = Append(@, row)],
         id |-> Len(store.feature) + 1]

\* lines 296-297: every record is added and gets its feature_id
RECURSIVE AddFeatures(_, _, _)
AddFeatures(store, heap, records) ==
    IF records = <<>> THEN [store |-> store, heap |-> heap]
    ELSE LET added == AddFeatureRow(store, heap[Head(records)])
         IN  AddFeatures(added.store,
                         [heap EXCEPT ![Head(records)].feature_id = added.id],
                         Tail(records))

\* lines 300-310: the loop over gene_relations.items(); the children of a
\* gene are a set, its rows are written in the order the set is iterated
RECURSIVE AddRelations(_, _, _)
AddRelations(store, heap, gene_relations) ==
    IF gene_relations = <<>> THEN {[store |-> store, raised |-> FALSE]}
    ELSE LET gene == Head(gene_relations).gene
             children == Head(gene_relations).children
         IN  IF \/ heap[gene].feature_id = NoFeatureId
                \/ \E c \in children : heap[c].feature_id = NoFeatureId
             THEN {[store |-> store, raised |-> TRUE]}
             ELSE UNION {AddRelations(
                            [store EXCEPT !.related_feature = @ \o
                                [i \in 1..Len(order) |->
                                    <<heap[gene].feature_id,
                                      heap[order[i]].feature_id>>]],
                            heap, Tail(gene_relations))
                         : order \in Perms(children)}

\* add_records, lines 290-310: the outcomes of one call
AddRecordsTo(store, heap, records, gene_relations) ==
    LET added == AddFeatures(store, heap, records)
    IN  {[store |-> o.store, heap |-> added.heap, raised |-> o.raised]
            : o \in AddRelations(added.store, added.heap, gene_relations)}

\* the keyword arguments of subset: each is None (no value) or one value
AtMostOne(S) == {{}} \cup {{x} : x \in S}
Filters(names, biotypes) ==
    [name : AtMostOne(names), biotype : AtMostOne(biotypes),
     strand : AtMostOne(Strands)]
NoFilters == [name |-> {}, biotype |-> {}, strand |-> {}]

\* both filters at once, when no keyword gets two values
Both(f1, f2) ==
    [name |-> f1.name \cup f2.name, biotype |-> f1.biotype \cup f2.biotype,
     strand |-> f1.strand \cup f2.strand]
Compatible(f1, f2) ==
    /\ Cardinality(Both(f1, f2).name) <= 1
    /\ Cardinality(Both(f1, f2).biotype) <= 1
    /\ Cardinality(Both(f1, f2).strand) <= 1

\* lines 201-217 and 448: the row of the view gff for feature i meets the
\* conditions; biotype is a NOCASE column, name and strand are not
Matches(store, i, filter) ==
    LET row == store.feature[i]
    IN  /\ row.biotype_id \in 1..Len(store.biotype)
        /\ \A b \in filter.biotype :
               Lower(store.biotype[row.biotype_id]) = Lower(b)
        /\ \A n \in filter.name : row.stableid = n
        /\ \A s \in filter.strand : row.strand = s

MatchedIds(store, filter) ==
    {i \in 1..Len(store.feature) : Matches(store, i, filter)}

RECURSIVE Ascending(_)
Ascending(S) ==
    IF S = {} THEN <<>>
    ELSE LET least == CHOOSE x \in S : \A y \in S : x <= y
         IN  <<least>> \o Ascending(S \ {least})

Position(ids, id) == CHOOSE k \in 1..Len(ids) : ids[k] = id

\* lines 463-467: the dict from gene to the set of its children; the keys
\* and the members of a set are records, equal when their names are equal
\* (lines 70-74), so a record whose name is held already is not added
RECURSIVE RelatedDict(_, _, _, _)
RelatedDict(rows, ids, heap, dict) ==
    IF rows = <<>> THEN dict
    ELSE LET gene_id == Head(rows)[1]
             related_id == Head(rows)[2]
             selected == /\ \E k \in 1..Len(ids) : ids[k] = gene_id
                         /\ \E k \in 1..Len(ids) : ids[k] = related_id
             gene == Position(ids, gene_id)
             child == Position(ids, related_id)
             held == {e \in 1..Len(dict) :
                         heap[dict[e].gene].name = heap[gene].name}
             key == CHOOSE e \in held : TRUE
         IN  IF ~selected THEN RelatedDict(Tail(rows), ids, heap, dict)
             ELSE IF held = {}
             THEN RelatedDict(Tail(rows), ids, heap,
                     Append(dict, [gene |-> gene, children |-> {child}]))
             ELSE RelatedDict(Tail(rows), ids, heap,
                     [dict EXCEPT ![key].children =
                         IF \E c \in @ : heap[c].name = heap[child].name
                         THEN @ ELSE @ \cup {child}])

\* subset, lines 419-470: the stores the call can return
Subset(store, filter) ==
    IF Len(store.feature) = 0 THEN {EmptyStore}
    ELSE LET ids == Ascending(MatchedIds(store, filter))
             heap == [k \in 1..Len(ids) |->
                        [name |-> store.feature[ids[k]].stableid,
                         biotype |->
                            store.biotype[store.feature[ids[k]].biotype_id],
                         strand |-> store.feature[ids[k]].strand,
                         feature_id |-> NoFeatureId]]
             gene_relations ==
                 RelatedDict(store.related_feature, ids, heap, <<>>)
         IN  {o.store : o \in AddRecordsTo(EmptyStore, heap,
                                [k \in 1..Len(ids) |-> k], gene_relations)}

\* the records a caller constructs for one add_records call
RecordSeqs(universe, n) ==
    UNION {[1..k -> universe] : k \in 0..n}

\* the dicts a caller can hand over as gene_relations, of at most n genes
\* out of the objects objs: the keys differ in name, and so do the members
\* of each set
RelationEntries(heap, objs) ==
    {e \in [gene : objs, children : SUBSET objs \ {{}}] :
        /\ e.gene \notin e.children
        /\ \A c, d \in e.children : heap[c].name = heap[d].name => c = d}
RelationDicts(heap, objs, n) ==
    {<<>>} \cup {<<e>> : e \in RelationEntries(heap, objs)}
    \cup (IF n < 2 THEN {}
          ELSE {p \in {<<e, f>> : e \in RelationEntries(heap, objs),
                                  f \in RelationEntries(heap, objs)} :
                   heap[p[1].gene].name # heap[p[2].gene].name})

NoGffCall == [op |-> "none", raised |-> FALSE]

GffDbIdle ==
    /\ gf_pc = "idle"
    /\ gf_store = EmptyStore
    /\ gf_heap = <<>>
    /\ gf_last = NoGffCall
    /\ gf_prev = EmptyStore
    /\ gf_f1 = NoFilters
    /\ gf_f2 = NoFilters
    /\ gf_s1 = EmptyStore
    /\ gf_s12 = EmptyStore
    /\ gf_both = EmptyStore

GffDbInit ==
    /\ gf_pc = "open"
    /\ gf_store = EmptyStore
    /\ gf_heap = <<>>
    /\ gf_last = NoGffCall
    /\ gf_prev = EmptyStore
    /\ gf_f1 = NoFilters
    /\ gf_f2 = NoFilters
    /\ gf_s1 = EmptyStore
    /\ gf_s12 = EmptyStore
    /\ gf_both = EmptyStore

\* db.add_feature(**kwargs): the record is built by the call, line 274
GffAddFeature(record) ==
    /\ gf_pc = "open"
    /\ Len(gf_store.feature) < MaxFeatures
    /\ gf_prev' = gf_store
    /\ gf_store' = AddFeatureRow(gf_store, record).store
    /\ gf_last' = [op |-> "add_feature", raised |-> FALSE]
    /\ UNCHANGED <<gf_pc, gf_heap, gf_f1, gf_f2, gf_s1, gf_s12, gf_both>>
    /\ UNCHANGED <<grVars, mgVars, dbVars, gmVars, nzVars, dlVars, maVars>>

\* db.add_records(records=..., gene_relations=...): the caller constructs
\* the records `fresh`, hands over those at the places `passed` as records,
\* and a dict over the records it holds
GffAddRecords(fresh, passed, n) ==
    /\ gf_pc = "open"
    /\ Len(gf_heap) + Len(fresh) <= MaxObjects
    /\ Len(gf_store.feature) + Cardinality(passed) <= MaxFeatures
    /\ LET heap == gf_heap \o fresh
           records == Ascending({Len(gf_heap) + k : k \in passed})
       IN  \E gene_relations \in RelationDicts(heap, 1..Len(heap), n) :
           \E o \in AddRecordsTo(gf_store, heap, records, gene_relations) :
               /\ gf_prev' = gf_store
               /\ gf_store' = o.store
               /\ gf_heap' = o.heap
               /\ gf_last' = [op |-> "add_records", raised |-> o.raised]
    /\ UNCHANGED <<gf_pc, gf_f1, gf_f2, gf_s1, gf_s12, gf_both>>
    /\ UNCHANGED <<grVars, mgVars, dbVars, gmVars, nzVars, dlVars, maVars>>

\* s1 = db.subset(**f1)
SubsetFirst(f1) ==
    /\ gf_pc = "open"
    /\ gf_pc' = "one"
    /\ gf_f1' = f1
    /\ gf_s1' \in Subset(gf_store, f1)
    /\ UNCHANGED <<gf_store, gf_heap, gf_last, gf_prev, gf_f2, gf_s12, gf_both>>
    /\ UNCHANGED <<grVars, mgVars, dbVars, gmVars, nzVars, dlVars, maVars>>

\* s12 = s1.subset(**f2)
SubsetSecond(f2) ==
    /\ gf_pc = "one"
    /\ Compatible(gf_f1, f2)
    /\ gf_pc' = "two"
    /\ gf_f2' = f2
    /\ gf_s12' \in Subset(gf_s1, f2)
    /\ UNCHANGED <<gf_store, gf_heap, gf_last, gf_prev, gf_f1, gf_s1, gf_both>>
    /\ UNCHANGED <<grVars, mgVars, dbVars, gmVars, nzVars, dlVars, maVars>>

\* both = db.subset(**f1, **f2)
SubsetBoth ==
    /\ gf_pc = "two"
    /\ gf_pc' = "done"
    /\ gf_both' \in Subset(gf_store, Both(gf_f1, gf_f2))
    /\ UNCHANGED <<gf_store, gf_heap, gf_last, gf_prev, gf_f1, gf_f2, gf_s1,
                   gf_s12>>
    /\ UNCHANGED <<grVars, mgVars, dbVars, gmVars, nzVars, dlVars, maVars>>

(***************************************************************************)
(* download_data (_ftp_download.py, lines 65-119).  A retrieved file is    *)
(* the signature file of its directory, a file exempt from checksumming,   *)
(* or a data file whose content has or has not the signature the signature *)
(* file expects.  saved_paths is a generator (lines 47-53): it yields each *)
(* path once, dl_next is the place of the path it yields next.             *)
(***************************************************************************)
RetrievedFiles ==
    {[kind |-> "signature", valid |-> TRUE],
     [kind |-> "exempt", valid |-> TRUE],
     [kind |-> "data", valid |-> TRUE],
     [kind |-> "data", valid |-> FALSE]}

\* the files of remote_paths, in the order of the list
PathSeqs == UNION {[1..k -> RetrievedFiles] : k \in 0..MaxFiles}

\* line 108: elt_util.dont_checksum(path)
DontChecksum(path) == path.kind \in {"signature", "exempt"}

\* lines 104-114: for path in saved_paths, from the path the generator
\* yields next; the places of the files whose signature was computed and
\* compared, and how the loop ends
RECURSIVE Validate(_, _, _, _)
Validate(paths, next, loaded, compared) ==
    IF next > Len(paths)
    THEN [compared |-> compared, result |-> "True"]
    ELSE IF DontChecksum(paths[next])
    THEN Validate(paths, next + 1, loaded, compared)
    ELSE IF ~loaded
    THEN [compared |-> compared, result |-> "KeyError"]
    ELSE IF ~paths[next].valid
    THEN [compared |-> compared \cup {next}, result |-> "AssertionError"]
    ELSE Validate(paths, next + 1, loaded, compared \cup {next})

DownloadIdle ==
    /\ dl_pc = "idle"
    /\ dl_paths = <<>>
    /\ dl_do_checksum = FALSE
    /\ dl_next = 1
    /\ dl_loaded = FALSE
    /\ dl_compared = {}
    /\ dl_result = "none"

\* download_data was called: line 74 made the generator
DownloadInit ==
    /\ dl_pc = "load"
    /\ dl_paths \in PathSeqs
    /\ dl_do_checksum \in BOOLEAN
    /\ dl_next = 1
    /\ dl_loaded = FALSE
    /\ dl_compared = {}
    /\ dl_result = "none"

\* lines 85-91: one path of the first loop over saved_paths
LoadSignatures ==
    /\ dl_pc = "load"
    /\ dl_next <= Len(dl_paths)
    /\ dl_loaded' = (dl_loaded \/ dl_paths[dl_next].kind = "signature")
    /\ dl_next' = dl_next + 1
    /\ UNCHANGED <<dl_pc, dl_paths, dl_do_checksum, dl_compared, dl_result>>
    /\ UNCHANGED <<grVars, mgVars, dbVars, gmVars, nzVars, gfVars, maVars>>

\* lines 96-119: the first loop has ended; the checksums are validated if
\* do_checksum, and True is returned unless an error was raised
ValidateChecksums ==
    /\ dl_pc = "load"
    /\ dl_next > Len(dl_paths)
    /\ LET out == IF dl_do_checksum
                  THEN Validate(dl_paths, dl_next, dl_loaded, {})
                  ELSE [compared |-> {}, result |-> "True"]
       IN  /\ dl_compared' = out.compared
           /\ dl_result' = out.result
    /\ dl_pc' = "done"
    /\ UNCHANGED <<dl_paths, dl_do_checksum, dl_next, dl_loaded>>
    /\ UNCHANGED <<grVars, mgVars, dbVars, gmVars, nzVars, gfVars, maVars>>

(***************************************************************************)
(* make_annotation_db (_genomedb.py, lines 500-519).  The destination is   *)
(* "absent", "empty" (EnsemblGffDb(source=dest) has made the file with its *)
(* tables and views, lines 182-193, and no row was written) or "built".    *)
(***************************************************************************)
\* make_gene_relationships(records) raises KeyError: lines 485, 486 and 492
RelationshipsRaise(records) ==
    \/ records.cds = <<>>
    \/ \E i \in 1..Len(records.cds) :
          \/ records.mrna[records.cds[i].parent_id] = NoRecord
          \/ records.mrna[records.cds[i].parent_id] \notin records.gene

\* the records of the gff3 files handed over as src
AnnotationInputs ==
    {r \in RecordSets : r.canonical = {} /\ Len(r.cds) <= 1}

AnnotationIdle ==
    /\ ma_pc = "idle"
    /\ ma_dest = "absent"
    /\ ma_calls = <<>>

\* no file is at dest
AnnotationInit ==
    /\ ma_pc = "ready"
    /\ ma_dest = "absent"
    /\ ma_calls = <<>>

\* make_annotation_db((src, dest)): the call returns True without building
\* when dest exists (lines 509-510); otherwise line 512 makes the store at
\* dest, line 514 raises for records with a broken chain, and lines 515-518
\* write the rows and close the store
MakeAnnotationDb(src) ==
    /\ ma_pc = "ready"
    /\ Len(ma_calls) < MaxBuildCalls
    /\ LET outcome == IF ma_dest # "absent" THEN "skipped"
                      ELSE IF RelationshipsRaise(src) THEN "raised"
                      ELSE "built"
       IN  /\ ma_dest' = IF outcome = "skipped" THEN ma_dest
                         ELSE IF outcome = "raised" THEN "empty"
                         ELSE "built"
           /\ ma_calls' = Append(ma_calls, [src |-> src, outcome |-> outcome])
    /\ UNCHANGED ma_pc
    /\ UNCHANGED <<grVars, mgVars, dbVars, gmVars, nzVars, gfVars, dlVars>>

(***************************************************************************)
(* Specifications: one for each part of the package                        *)
(***************************************************************************)
GroupedStep(rel_type, gene_id_1, gene_id_2) ==
    /\ Len(data) < MaxTriples
    /\ Consume(rel_type, gene_id_1, gene_id_2)

\* a stream whose triples are all of type "ortho"
GroupedStepOrtho(gene_id_1, gene_id_2) ==
    /\ Len(data) < MaxTriplesOrtho
    /\ Consume("ortho", gene_id_1, gene_id_2)

GroupedStepShort(gene_id_1, gene_id_2) ==
    /\ Len(data) < MaxTriplesShort
    /\ Consume("ortho", gene_id_1, gene_id_2)

NextGrouped ==
    \/ \E t \in RelTypes, a \in GrGenes, b \in GrGenes : GroupedStep(t, a, b)
    \/ GroupedReturn

NextGroupedOrtho ==
    \/ \E a \in GrGenes, b \in GrGenes : GroupedStepOrtho(a, b)
    \/ GroupedReturn

NextGroupedShort ==
    \/ \E a \in GrGenes, b \in GrGenes : GroupedStepShort(a, b)
    \/ GroupedReturn

InitGrouped == GroupedInit /\ MergeIdle /\ DbIdle /\ GeneRelIdle /\ NormalizerIdle
    /\ GffDbIdle /\ DownloadIdle /\ AnnotationIdle
SpecGrouped == InitGrouped /\ [][NextGrouped]_vars
SpecGroupedOrtho == InitGrouped /\ [][NextGroupedOrtho]_vars
SpecGroupedShort == InitGrouped /\ [][NextGroupedShort]_vars

NextMerge == MergeAB \/ MergeBA
NextAssoc == ReduceAB \/ ReduceAB_C \/ ReduceBC \/ ReduceA_BC

InitMerge == GroupedIdle /\ MergeInit /\ DbIdle /\ GeneRelIdle /\ NormalizerIdle
    /\ GffDbIdle /\ DownloadIdle /\ AnnotationIdle
InitAssoc == GroupedIdle /\ AssocInit /\ DbIdle /\ GeneRelIdle /\ NormalizerIdle
    /\ GffDbIdle /\ DownloadIdle /\ AnnotationIdle
SpecMerge == InitMerge /\ [][NextMerge]_vars
SpecAssoc == InitAssoc /\ [][NextAssoc]_vars

NextHomDb ==
    \E t \in RelTypes :
        \E records \in RecordsOver(DbGeneIds, MaxDbGroups - db_groups) :
            AddRecords(records, t)

NextHomDbLong ==
    \E t \in RelTypes :
        \E records \in RecordsOver(PlainIds, MaxDbGroupsLong - db_groups) :
            AddRecords(records, t)

InitHomDb == GroupedIdle /\ MergeIdle /\ DbInit /\ GeneRelIdle /\ NormalizerIdle
    /\ GffDbIdle /\ DownloadIdle /\ AnnotationIdle
SpecHomDb == InitHomDb /\ [][NextHomDb]_vars
SpecHomDbLong == InitHomDb /\ [][NextHomDbLong]_vars

NextGeneRel == BuildRelated \/ ReduceCds \/ GeneRelReturn

InitGeneRel == GroupedIdle /\ MergeIdle /\ DbIdle /\ GeneRelInit /\ NormalizerIdle
    /\ GffDbIdle /\ DownloadIdle /\ AnnotationIdle
SpecGeneRel == InitGeneRel /\ [][NextGeneRel]_vars

NextNormalizer ==
    \/ \E line \in Lines : Len(nz_lines) < MaxLines /\ Feed(line)
    \/ NormalizerReturn

InitNormalizer ==
    GroupedIdle /\ MergeIdle /\ DbIdle /\ GeneRelIdle /\ NormalizerInit
    /\ GffDbIdle /\ DownloadIdle /\ AnnotationIdle
SpecNormalizer == InitNormalizer /\ [][NextNormalizer]_vars

\* the records of the add_feature calls: any name, any biotype
FeatureInputs == GffRecords(FeatureNames, Biotypes, {"+"})
\* the records of the add_records calls: genes
RecordInputs(strands) ==
    GffRecords(PlainNames, {[word |-> "gene", upper |-> FALSE]}, strands)
\* the conditions of the subset calls
SubsetFilters == Filters(PlainNames, {})

NextGffDb ==
    \/ \E record \in FeatureInputs : GffAddFeature(record)
    \/ \E fresh \in RecordSeqs(RecordInputs({"+"}), MaxFresh) \ {<<>>} :
       \E passed \in SUBSET (1..Len(fresh)) :
           GffAddRecords(fresh, passed, 2)

NextSubset ==
    \/ \E fresh \in RecordSeqs(RecordInputs(Strands), MaxFresh) \ {<<>>} :
           GffAddRecords(fresh, 1..Len(fresh), 1)
    \/ \E f1 \in SubsetFilters : SubsetFirst(f1)
    \/ \E f2 \in SubsetFilters : SubsetSecond(f2)
    \/ SubsetBoth

InitGffDb ==
    /\ GroupedIdle /\ MergeIdle /\ DbIdle /\ GeneRelIdle /\ NormalizerIdle
    /\ GffDbInit /\ DownloadIdle /\ AnnotationIdle
SpecGffDb == InitGffDb /\ [][NextGffDb]_vars
SpecSubset == InitGffDb /\ [][NextSubset]_vars

NextDownload == LoadSignatures \/ ValidateChecksums
InitDownload ==
    /\ GroupedIdle /\ MergeIdle /\ DbIdle /\ GeneRelIdle /\ NormalizerIdle
    /\ GffDbIdle /\ DownloadInit /\ AnnotationIdle
SpecDownload == InitDownload /\ [][NextDownload]_vars

NextAnnotation == \E src \in AnnotationInputs : MakeAnnotationDb(src)
InitAnnotation ==
    /\ GroupedIdle /\ MergeIdle /\ DbIdle /\ GeneRelIdle /\ NormalizerIdle
    /\ GffDbIdle /\ DownloadIdle /\ AnnotationInit
SpecAnnotation == InitAnnotation /\ [][NextAnnotation]_vars

\* the package as a whole: any one of its parts is at work (the runs of
\* SpecGroupedOrtho, SpecGroupedShort and SpecHomDbLong are other runs of the
\* same actions)
Init ==
    \/ InitGrouped \/ InitMerge \/ InitAssoc \/ InitHomDb \/ InitGeneRel
    \/ InitNormalizer \/ InitGffDb \/ InitDownload
    \/ InitAnnotation

Next ==
    \/ NextGrouped \/ NextMerge \/ NextAssoc \/ NextHomDb \/ NextGeneRel
    \/ NextNormalizer \/ NextGffDb \/ NextSubset \/ NextDownload
    \/ NextAnnotation

Spec == Init /\ [][Next]_vars

(***************************************************************************)
(* Properties                                                              *)
(***************************************************************************)
\* the gene-id sets of the groups returned for rel_type
ReturnedSets(rel_type) == {gr_heap[o].gene_ids : o \in reduced[rel_type]}

\* C1: the groups grouped_related returns for one relationship type are
\* pairwise disjoint: no gene id is a member of two returned groups of a type.
C1_ReturnedGroupsDisjoint ==
    gr_pc = "done" =>
        \A t \in RelTypes : \A o1 \in reduced[t], o2 \in reduced[t] :
            o1 # o2 => gr_heap[o1].gene_ids \cap gr_heap[o2].gene_ids = {}

\* C2: for every input triple (t, a, b) some group returned for type t holds
\* both a and b.
C2_LinkedPairStaysTogether ==
    gr_pc = "done" =>
        \A i \in 1..Len(data) :
            \E s \in ReturnedSets(data[i][1]) : {data[i][2], data[i][3]} \subseteq s

\* C3: merge_grouped(A, B) and merge_grouped(B, A) hold, for every
\* relationship type, the same set of gene-id sets.
C3_MergeCommutes ==
    mg_pc = "done" =>
        /\ r_ab.keys = r_ba.keys
        /\ \A t \in RelTypes :
              GroupSets(mg_heap, r_ab, t) = GroupSets(mg_heap, r_ba, t)

\* C4: merge_grouped(A, merge_grouped(B, C)) and
\* merge_grouped(merge_grouped(A, B), C) hold, for every relationship type,
\* the same set of gene-id sets.
C4_MergeAssociates ==
    mg_pc = "done3" =>
        /\ r_ab_c.keys = r_a_bc.keys
        /\ \A t \in RelTypes :
              GroupSets(mg_heap, r_ab_c, t) = GroupSets(mg_heap, r_a_bc, t)

\* the groups of each type of clustering T are pairwise disjoint
DisjointT(heap, T) ==
    \A t \in RelTypes : \A o1 \in T.groups[t], o2 \in T.groups[t] :
        o1 # o2 => heap[o1].gene_ids \cap heap[o2].gene_ids = {}

\* C5: if the groups of each input are pairwise disjoint per relationship
\* type, so are the groups merge_grouped returns.
C5_MergeKeepsDisjoint ==
    (mg_pc \in {"ab", "done"} /\ DisjointT(mg_heap, in_a) /\ DisjointT(mg_heap, in_b))
        => DisjointT(mg_heap, r_ab)

\* C6: merge_grouped never mutates its inputs: after the calls A and B hold
\* the relationship types and the member sets they were built with.
C6_InputsNotMutated ==
    mg_pc \in {"start", "ab", "done"} =>
        /\ SetsOf(mg_heap, in_a) = in_sets[1]
        /\ SetsOf(mg_heap, in_b) = in_sets[2]

\* both calls were made and the first united groups of A and B into a group
\* that neither input holds
C6_Witness ==
    /\ mg_pc = "done"
    /\ \E t \in RelTypes : \E s \in GroupSets(mg_heap, r_ab, t) :
          /\ s \notin GroupSets(mg_heap, in_a, t)
          /\ s \notin GroupSets(mg_heap, in_b, t)

\* the gene ids hold no comma
CommaFree(gene_ids) == \A gene_id \in gene_ids : Len(gene_id) = 1

\* the last add_records call returned, and its i-th group was stored as a
\* new group: before the call no gene id of it was a member of a group of
\* the call's type, and no other group of the call shares a gene id with it
StoredAsNew(i) ==
    /\ db_pc = "open"
    /\ ~db_last.raised
    /\ i \in 1..Len(db_last.records)
    /\ LET G == db_last.records[i].gene_ids
       IN /\ CommaFree(G)
          /\ \A r \in RelatedGroups(db_prev.relationship, db_prev.homology,
                                    db_prev.member) :
                r.homology_type = db_last.relationship_type => r.gene_id \notin G
          /\ \A j \in 1..Len(db_last.records) :
                j # i => db_last.records[j].gene_ids \cap G = {}

\* what get_related_to can return now
RelatedNow(gene_id, relationship_type) ==
    GetRelatedTo(relationship_tbl, homology_tbl, member_tbl, gene_id,
                 relationship_type)

Observed(rel, hom, mem) ==
    [groups |-> [t \in RelTypes |-> GetRelatedGroups(rel, hom, mem, t)],
     related |-> [t \in RelTypes |->
                    [g \in DbGeneIds |-> GetRelatedTo(rel, hom, mem, g, t)]]]

\* C8: add_records is idempotent from any state of the store: a call that
\* repeats the call before it leaves the results of get_related_groups and
\* get_related_to as they were after the first of the two.
C8_AddRecordsIdempotent ==
    (db_last.repeat /\ ~db_last.raised) =>
        Observed(relationship_tbl, homology_tbl, member_tbl)
            = Observed(db_prev.relationship, db_prev.homology, db_prev.member)

\* C9: add_records with a group whose relationship is not relationship_type
\* fails, and the call adds no homology row and no member row: those of the
\* groups that precede the mismatching one are not there either.
C9_MismatchLeavesStoreUnmodified ==
    /\ (\E i \in 1..Len(db_last.records) :
            db_last.records[i].relationship # db_last.relationship_type)
        => db_last.raised
    /\ db_last.raised =>
          /\ homology_tbl = db_prev.homology
          /\ member_tbl = db_prev.member

\* the CDS records of the input that descend from the gene record, and the
\* mRNA records they are children of
Descendants(gene) ==
    UNION {{[biotype |-> "cds", name |-> gm_records.cds[i].name],
            [biotype |-> "mrna", name |-> gm_records.cds[i].parent_id]}
           : i \in {j \in 1..Len(gm_records.cds) :
                        gm_records.mrna[gm_records.cds[j].parent_id] = gene}}

\* C10: make_gene_relationships returns, for every gene record that has a CDS
\* descendant, the set of all its CDS records and their mRNA records, whether
\* the gene's name carries the type prefix or not (no two gene records of the
\* input share a stable id).
C10_AccumulatesAllChildren ==
    (/\ gm_pc = "done"
     /\ \A g \in gm_records.gene : g.typed => Stableid(g) \notin gm_records.gene)
    => \A g \in gm_records.gene :
          Descendants(g) # {} =>
              /\ genes[g] # NoSet
              /\ gm_heap[genes[g]] = Descendants(g)

\* the name each of the lines got, the counter starting at fake_ids
RECURSIVE NamesOf(_, _)
NamesOf(lines, fake_ids) ==
    IF lines = <<>> THEN <<>>
    ELSE LET line == Head(lines)
         IN IF line.id = NoId
            THEN <<[kind |-> "unknown", id |-> fake_ids]>>
                    \o NamesOf(Tail(lines), fake_ids + 1)
            ELSE <<[kind |-> "id", id |-> line.id.id]>>
                    \o NamesOf(Tail(lines), fake_ids)

\* the (start, stop) pairs of the lines named `name`, in input order
RECURSIVE SpansOf(_, _, _)
SpansOf(lines, names, name) ==
    IF lines = <<>> THEN <<>>
    ELSE (IF Head(names) = name
          THEN <<<<Head(lines).start, Head(lines).stop>>>> ELSE <<>>)
         \o SpansOf(Tail(lines), Tail(names), name)

\* C11: the table of custom_gff_parser holds exactly one record per distinct
\* identifier of the lines read, and the spans of that record are the
\* (start, stop) pairs of all lines with the identifier, in input order.
C11_OneRecordPerIdentifier ==
    LET names == NamesOf(nz_lines, 0)
    IN /\ DOMAIN nz_reduced = {names[i] : i \in 1..Len(names)}
       /\ \A name \in DOMAIN nz_reduced :
            /\ nz_reduced[name].name = name
            /\ nz_reduced[name].spans = SpansOf(nz_lines, names, name)

\* the parser returned a table in which two lines were merged into one
\* record, while a line between them went to another record
C11_Witness ==
    /\ nz_pc = "done"
    /\ Len(nz_lines) = 3
    /\ \E name \in DOMAIN nz_reduced :
        /\ Len(nz_reduced[name].spans) = 2
        /\ nz_reduced[name].spans[1] # nz_reduced[name].spans[2]
        /\ NamesOf(nz_lines, 0)[2] # name

\* C12: every record of the table has a non-empty span list, its start is
\* the least and its stop the greatest coordinate of its spans.
C12_StartStopCoverSpans ==
    \A name \in DOMAIN nz_reduced :
        LET r == nz_reduced[name]
            coords == UNION {{r.spans[i][1], r.spans[i][2]}
                                : i \in 1..Len(r.spans)}
        IN /\ r.spans # <<>>
           /\ r.start \in coords /\ \A c \in coords : r.start <= c
           /\ r.stop \in coords /\ \A c \in coords : c <= r.stop

\* a returned record of two lines has its start from the second line and
\* its stop from the first
C12_Witness ==
    /\ nz_pc = "done"
    /\ \E name \in DOMAIN nz_reduced :
        LET r == nz_reduced[name]
        IN /\ Len(r.spans) = 2
           /\ r.start < r.spans[1][1]
           /\ r.stop > r.spans[2][2]

\* the last line read has an ID, and an earlier line has that identifier
\* and the same start and stop
RepeatsLine ==
    /\ nz_lines # <<>>
    /\ LET n == Len(nz_lines)
           names == NamesOf(nz_lines, 0)
       IN /\ nz_lines[n].id # NoId
          /\ \E i \in 1..(n - 1) :
                /\ names[i] = names[n]
                /\ nz_lines[i].start = nz_lines[n].start
                /\ nz_lines[i].stop = nz_lines[n].stop

\* the table and the counter after the lines but the last
RECURSIVE Normalized(_)
Normalized(lines) ==
    IF lines = <<>> THEN [reduced |-> <<>>, num_fake_ids |-> 0]
    ELSE LET before == Normalized(SubSeq(lines, 1, Len(lines) - 1))
         IN FeedRecord(before.reduced, before.num_fake_ids, lines[Len(lines)])

\* C13 (as stated): a line whose identifier, start and stop are those of a
\* line already read leaves the table, span lists included, as it was.
C13_RepeatedLineChangesNothing ==
    RepeatsLine =>
        nz_reduced = Normalized(SubSeq(nz_lines, 1, Len(nz_lines) - 1)).reduced

\* C13 (amended): a line whose identifier, start and stop are those of a line
\* already read adds no record and changes no start or stop; its (start, stop)
\* pair is appended once more to the span list of its record, and the other
\* records stay as they were.
C13_RepeatedLineAppendsSpan ==
    RepeatsLine =>
        LET n == Len(nz_lines)
            before == Normalized(SubSeq(nz_lines, 1, n - 1)).reduced
            name == NamesOf(nz_lines, 0)[n]
        IN /\ DOMAIN nz_reduced = DOMAIN before
           /\ \A other \in DOMAIN before \ {name} :
                nz_reduced[other] = before[other]
           /\ nz_reduced[name].start = before[name].start
           /\ nz_reduced[name].stop = before[name].stop
           /\ nz_reduced[name].spans
                = Append(before[name].spans,
                         <<nz_lines[n].start, nz_lines[n].stop>>)

\* a line was read a second time, after a line of another record
C13_Witness ==
    /\ RepeatsLine
    /\ Len(nz_lines) = 3
    /\ Cardinality(DOMAIN nz_reduced) = 2
    /\ nz_lines[1] = nz_lines[3]


\* every triple after the first has a gene id of an earlier triple
Chained ==
    \A i \in 2..Len(data) :
        \E j \in 1..(i - 1) : {data[i][2], data[i][3]} \cap {data[j][2], data[j][3]} # {}

\* C18: when every triple of a sequence of one relationship type has, but for
\* the first, a gene id that occurred in an earlier triple, grouped_related
\* returns one group for the type, and it holds all gene ids of the sequence.
C18_ChainGivesOneGroup ==
    (/\ gr_pc = "done"
     /\ data # <<>>
     /\ \A i \in 1..Len(data) : data[i][1] = data[1][1]
     /\ Chained)
    => ReturnedSets(data[1][1])
          = {UNION {{data[i][2], data[i][3]} : i \in 1..Len(data)}}

\* a chain of three triples over four gene ids was grouped, the second
\* triple met through its second gene id
C18_Witness ==
    /\ gr_pc = "done"
    /\ Len(data) = 3
    /\ Chained
    /\ data[2][2] \notin {data[1][2], data[1][3]}
    /\ data[2][3] \in {data[1][2], data[1][3]}
    /\ Cardinality(UNION {{data[i][2], data[i][3]} : i \in 1..3}) = 4
    /\ Cardinality(ReturnedSets("ortho")) = 1

\* C19: make_gene_relationships ends with an error whenever a CDS record's
\* parent names no mRNA record of the input or an mRNA record's parent names
\* no gene record of the input.
C19_BrokenChainFails ==
    (/\ gm_pc \in {"done", "raised"}
     /\ \/ \E i \in 1..Len(gm_records.cds) :
              gm_records.mrna[gm_records.cds[i].parent_id] = NoRecord
        \/ \E m \in MrnaNames :
              /\ gm_records.mrna[m] # NoRecord
              /\ gm_records.mrna[m] \notin gm_records.gene)
    => gm_pc = "raised"
\* C14: no two rows of the feature table of a store share a stable
\* identifier: adding a feature whose stable identifier is stored already is
\* rejected.
C14_StableIdsUnique ==
    \A i, j \in 1..Len(gf_store.feature) :
        i # j => gf_store.feature[i].stableid # gf_store.feature[j].stableid

\* the three tables of a store
Tables(store) ==
    [biotype |-> store.biotype, feature |-> store.feature,
     related_feature |-> store.related_feature]

\* C15: an add_records call that fails, because a gene or a descendant of
\* gene_relations has no feature id, leaves the store as it was: no feature
\* row and no edge row written by the call remains.
C15_FailedCallLeavesStore ==
    gf_last.raised => Tables(gf_store) = Tables(gf_prev)

\* the stable identifiers of the features of a store, and its edges as
\* pairs of stable identifiers
FeatureStableIds(store) ==
    {store.feature[i].stableid : i \in 1..Len(store.feature)}
EdgeStableIds(store) ==
    {<<store.feature[store.related_feature[e][1]].stableid,
       store.feature[store.related_feature[e][2]].stableid>>
        : e \in 1..Len(store.related_feature)}

\* C16: the subset by f2 of the subset by f1 of a store holds the same
\* features, by stable identifier, and the same edges as the subset of the
\* store by f1 and f2 together.
C16_SubsetComposes ==
    gf_pc = "done" =>
        /\ FeatureStableIds(gf_s12) = FeatureStableIds(gf_both)
        /\ EdgeStableIds(gf_s12) = EdgeStableIds(gf_both)

\* C17: the store subset returns holds an edge exactly when the source holds
\* the edge and both its ends meet the conditions (the k-th feature of the
\* returned store is made from the k-th matching feature of the source).
C17_SubsetKeepsInducedEdges ==
    gf_pc \in {"one", "two", "done"} =>
        LET matched == MatchedIds(gf_store, gf_f1)
            ids == Ascending(matched)
        IN  {<<ids[gf_s1.related_feature[e][1]], ids[gf_s1.related_feature[e][2]]>>
                : e \in 1..Len(gf_s1.related_feature)}
            = {gf_store.related_feature[e] : e \in
                  {x \in 1..Len(gf_store.related_feature) :
                      /\ gf_store.related_feature[x][1] \in matched
                      /\ gf_store.related_feature[x][2] \in matched}}

\* C20: the biotype table holds one row for the biotype strings that differ
\* in case only, so that such strings are interned to the same biotype id.
C20_BiotypeCaseInsensitive ==
    \A i, j \in 1..Len(gf_store.biotype) :
        i # j => Lower(gf_store.biotype[i]) # Lower(gf_store.biotype[j])

\* a triple (t, a, b) is consumed whose gene ids map to two different groups
\* of type t: both ids are added to the group of a, b is mapped to it, and
\* the former group of b keeps its members
BridgingStep ==
    \A t \in RelTypes, a \in GrGenes, b \in GrGenes :
        (/\ gr_pc = "loop"
         /\ data' = Append(data, <<t, a, b>>)
         /\ grouped[t][a] # NoGroup
         /\ grouped[t][b] # NoGroup
         /\ grouped[t][a] # grouped[t][b])
        => /\ gr_heap'[grouped[t][a]].gene_ids
                 = gr_heap[grouped[t][a]].gene_ids \cup {a, b}
           /\ grouped'[t][a] = grouped[t][a]
           /\ grouped'[t][b] = grouped[t][a]
           /\ gr_heap'[grouped[t][b]] = gr_heap[grouped[t][b]]

\* the sequence (ortho, a, b), (ortho, c, d), (ortho, b, c) was grouped
BridgingCase ==
    /\ gr_pc = "done"
    /\ Len(data) = 3
    /\ \A i \in 1..3 : data[i][1] = "ortho"
    /\ Cardinality({data[1][2], data[1][3], data[2][2], data[2][3]}) = 4
    /\ data[3][2] = data[1][3]
    /\ data[3][3] = data[2][2]

C22_PersistedGroupsDisjoint ==
    \A r1 \in RelatedGroups(relationship_tbl, homology_tbl, member_tbl),
       r2 \in RelatedGroups(relationship_tbl, homology_tbl, member_tbl) :
        (r1.gene_id = r2.gene_id /\ r1.homology_type = r2.homology_type)
            => r1.homology_id = r2.homology_id

\* the gene ids of the groups clustering T holds for rel_type
MembersOf(heap, T, rel_type) == UNION GroupSets(heap, T, rel_type)

\* C25: merge_grouped neither loses nor invents gene ids: for every
\* relationship type the members of the groups it returns are the members of
\* the groups of that type of both inputs, and every returned group carries
\* the relationship type it is returned for.
C25_MergeKeepsMembers ==
    mg_pc \in {"ab", "done"} =>
        \A t \in RelTypes :
            /\ MembersOf(mg_heap, r_ab, t)
                  = MembersOf(mg_heap, in_a, t) \cup MembersOf(mg_heap, in_b, t)
            /\ \A o \in r_ab.groups[t] : mg_heap[o].relationship = t

\* merge_grouped united a group of A and a larger group of B into a new
\* group and returned it next to a group of A that shares no gene id with B
C25_Witness ==
    /\ mg_pc = "ab"
    /\ \E t \in RelTypes :
          /\ \E o \in r_ab.groups[t] :
                /\ o \notin in_a.groups[t] \cup in_b.groups[t]
                /\ mg_heap[o].gene_ids \notin GroupSets(mg_heap, in_a, t)
          /\ \E o \in r_ab.groups[t] :
                /\ o \in in_a.groups[t]
                /\ mg_heap[o].gene_ids \cap MembersOf(mg_heap, in_b, t) = {}
\* C23: a download_data call with do_checksum computes and compares the
\* signature of every retrieved file that is subject to checksumming, and
\* returns True only if all of them have the expected signature.
C23_AllFilesValidated ==
    (dl_pc = "done" /\ dl_do_checksum /\ dl_result = "True") =>
        \A i \in 1..Len(dl_paths) :
            ~DontChecksum(dl_paths[i]) =>
                (i \in dl_compared /\ dl_paths[i].valid)
\* C24: a make_annotation_db call that fails part-way leaves no store at
\* dest that is later taken as complete: the next call with the same src and
\* dest builds again, it does not return True without building.
C24_FailedBuildIsRepeated ==
    \A j \in 2..Len(ma_calls) :
        (/\ ma_calls[j - 1].outcome = "raised"
         /\ ma_calls[j].src = ma_calls[j - 1].src)
        => ma_calls[j].outcome # "skipped"
=============================================================================
